---- MODULE Spec2Model ----
(***************************************************************************)
(* kroctl: the push and inspect commands (internal/command), the           *)
(* repository connector (internal/oci) and the process entry point         *)
(* (Execute).  Strings are sequences of one-character strings so that      *)
(* filepath.Ext, filepath.Base, strings.HasPrefix and time.Parse are       *)
(* computed the way the Go code computes them.                             *)
(***************************************************************************)
EXTENDS Integers, Sequences, FiniteSets, TLC

\* Longest -f list the model enumerates.
MaxArgs == 2

(***************************************************************************)
(* String helpers                                                          *)
(***************************************************************************)

\* strings.HasPrefix(s, prefix)
HasPrefix(s, prefix) ==
    /\ Len(s) >= Len(prefix)
    /\ SubSeq(s, 1, Len(prefix)) = prefix

Digits == {"0","1","2","3","4","5","6","7","8","9"}

\* Position of the first "/" in s, 0 when there is none.
RECURSIVE IndexSlashFrom(_, _)
IndexSlashFrom(s, i) ==
    IF i > Len(s) THEN 0
    ELSE IF s[i] = "/" THEN i
    ELSE IndexSlashFrom(s, i + 1)

\* filepath.Ext: the suffix beginning at the final dot of the final element.
RECURSIVE ExtFrom(_, _)
ExtFrom(path, i) ==
    IF i = 0 \/ path[i] = "/" THEN <<>>
    ELSE IF path[i] = "." THEN SubSeq(path, i, Len(path))
    ELSE ExtFrom(path, i - 1)

Ext(path) == ExtFrom(path, Len(path))

\* filepath.Base on a clean path: the text after the last "/".
RECURSIVE BaseFrom(_, _)
BaseFrom(path, i) ==
    IF i = 0 \/ path[i] = "/" THEN SubSeq(path, i + 1, Len(path))
    ELSE BaseFrom(path, i - 1)

Base(path) == BaseFrom(path, Len(path))

\* filepath.Join(dir, name) for clean operands.
Join(dir, name) == dir \o <<"/">> \o name

YamlExt == <<".","y","a","m","l">>
YmlExt  == <<".","y","m","l">>

(***************************************************************************)
(* The file system push runs against                                       *)
(*   d/  a.yaml  b.yml  c.txt  k.yaml/ (a directory: n)  s/ (e.yaml f.json)*)
(*   e/  r.md                                                              *)
(*   x.yaml   n.txt                                                        *)
(***************************************************************************)
P_d      == <<"d">>
P_ds     == <<"d","/","s">>
P_dk     == <<"d","/","k",".","y","a","m","l">>
P_e      == <<"e">>
P_x      == <<"x",".","y","a","m","l">>
P_ntxt   == <<"n",".","t","x","t">>
P_da     == <<"d","/","a",".","y","a","m","l">>
P_gone   == <<"m","i","s","s","i","n","g">>

FsDirs == {P_d, P_ds, P_dk, P_e}

\* Directory listings, in the lexical order filepath.Walk reads them.
DirEntries(dir) ==
    CASE dir = P_d  -> << <<"a",".","y","a","m","l">>, <<"b",".","y","m","l">>,
                          <<"c",".","t","x","t">>, <<"k",".","y","a","m","l">>,
                          <<"s">> >>
      [] dir = P_ds -> << <<"e",".","y","a","m","l">>, <<"f",".","j","s","o","n">> >>
      [] dir = P_dk -> << <<"n">> >>
      [] dir = P_e  -> << <<"r",".","m","d">> >>
      [] OTHER      -> << >>

SeqRange(s) == {s[i] : i \in 1..Len(s)}

FsFiles ==
    {P_x, P_ntxt} \cup
    UNION {{Join(dir, n) : n \in SeqRange(DirEntries(dir))} \ FsDirs : dir \in FsDirs}

\* os.Stat(filename): err != nil, info.IsDir()
StatExists(path) == path \in FsDirs \cup FsFiles
IsDir(path) == path \in FsDirs

\* The paths a user passes with -f.
PathArgs == {P_d, P_ds, P_e, P_x, P_ntxt, P_da, P_gone}

FilenameLists == UNION {[1..n -> PathArgs] : n \in 0..MaxArgs}

(***************************************************************************)
(* File Collector: the callback and traversal of filepath.Walk             *)
(***************************************************************************)

\* WalkFn without the !info.IsDir() test.
WalkFnKeepsDirs(path) ==
    IF Ext(path) = YamlExt \/ Ext(path) = YmlExt THEN <<path>> ELSE <<>>

\* The walk callback: keep a non-directory whose extension is .yaml or .yml.
WalkFn(path) ==
    IF ~IsDir(path) /\ (Ext(path) = YamlExt \/ Ext(path) = YmlExt)
    THEN <<path>>
    ELSE <<>>

\* filepath.Walk(root, fn): pre-order, entries of a directory in lexical order.
RECURSIVE Walk(_)
RECURSIVE WalkNames(_, _)
Walk(path) ==
    WalkFn(path) \o (IF IsDir(path) THEN WalkNames(path, DirEntries(path)) ELSE <<>>)

WalkNames(dir, names) ==
    IF names = <<>> THEN <<>>
    ELSE Walk(Join(dir, Head(names))) \o WalkNames(dir, Tail(names))

\* CollectFiltered with the extension filter applied to named files too.
CollectFilteredAlways(filename) ==
    IF IsDir(filename) THEN Walk(filename) ELSE WalkFn(filename)

\* What one -f argument adds to allFiles.
CollectFiltered(filename) ==
    IF IsDir(filename) THEN Walk(filename) ELSE <<filename>>

(***************************************************************************)
(* Repository Connector                                                    *)
(***************************************************************************)
LocalhostPrefix == <<"l","o","c","a","l","h","o","s","t",":">>
Ip4Prefix       == <<"1","2","7",".","0",".","0",".","1",":">>
Ip6Prefix       == <<":",":","1",":">>

R_local   == <<"l","o","c","a","l","h","o","s","t",":","5","0","0","1","/","s","t","a","c","k",":","v","1">>
R_ghcr    == <<"g","h","c","r",".","i","o","/","a","c","m","e","/","s","t","a","c","k",":","v","1">>
R_ip4     == <<"1","2","7",".","0",".","0",".","1",":","5","0","0","0","/","s",":","v","1">>
R_noport  == <<"l","o","c","a","l","h","o","s","t","/","s",":","v","1">>
R_lookal  == <<"l","o","c","a","l","h","o","s","t",".","i","o","/","s",":","v","1">>
R_ip6br   == <<"[",":",":","1","]",":","5","0","0","0","/","s",":","v","1">>
R_ip6     == <<":",":","1",":","5","0","0","0","/","s",":","v","1">>
R_bad     == <<"s","t","a","c","k">>

References == {R_local, R_ghcr, R_ip4, R_noport, R_lookal, R_ip6br, R_ip6, R_bad}

\* remote.NewRepository(reference): the reference must hold a registry and a
\* repository separated by "/".
ReferenceValid(reference) == IndexSlashFrom(reference, 1) > 1

\* repo.Reference.Host()
Host(reference) == SubSeq(reference, 1, IndexSlashFrom(reference, 1) - 1)

\* PlainHTTP with the ":" of the localhost prefix forgotten.
PlainHTTPLoosePrefix(host) ==
    \/ HasPrefix(host, SubSeq(LocalhostPrefix, 1, Len(LocalhostPrefix) - 1))
    \/ HasPrefix(host, Ip4Prefix)
    \/ HasPrefix(host, Ip6Prefix)

\* The plain-HTTP policy of SetupRepository.
PlainHTTP(host) ==
    \/ HasPrefix(host, LocalhostPrefix)
    \/ HasPrefix(host, Ip4Prefix)
    \/ HasPrefix(host, Ip6Prefix)

NoRepo == [set |-> FALSE, host |-> <<>>, plainHTTP |-> FALSE]

\* SetupRepository(reference) when it returns a handle.
SetupRepository(reference) ==
    [set |-> TRUE, host |-> Host(reference), plainHTTP |-> PlainHTTP(Host(reference))]

(***************************************************************************)
(* Manifests, annotations and the creation time                            *)
(***************************************************************************)
TS_ok       == <<"2","0","2","4","-","0","1","-","0","2","T","0","3",":","0","4",":","0","5","Z">>
TS_dateonly == <<"2","0","2","4","-","0","1","-","0","2">>
TS_month13  == <<"2","0","2","4","-","1","3","-","0","2","T","0","3",":","0","4",":","0","5","Z">>

DigitVal(c) ==
    CASE c = "0" -> 0 [] c = "1" -> 1 [] c = "2" -> 2 [] c = "3" -> 3 [] c = "4" -> 4
      [] c = "5" -> 5 [] c = "6" -> 6 [] c = "7" -> 7 [] c = "8" -> 8 [] c = "9" -> 9

TwoDigits(s, i) == DigitVal(s[i]) * 10 + DigitVal(s[i + 1])

\* time.Parse(time.RFC3339, created) returns no error, for the UTC ("Z") form
\* without fractional seconds: layout 2006-01-02T15:04:05Z with field ranges.
ParsesRFC3339(created) ==
    /\ Len(created) = 20
    /\ \A i \in {1,2,3,4,6,7,9,10,12,13,15,16,18,19} : created[i] \in Digits
    /\ created[5] = "-" /\ created[8] = "-" /\ created[11] = "T"
    /\ created[14] = ":" /\ created[17] = ":" /\ created[20] = "Z"
    /\ TwoDigits(created, 6) \in 1..12
    /\ TwoDigits(created, 9) \in 1..31
    /\ TwoDigits(created, 12) \in 0..23
    /\ TwoDigits(created, 15) \in 0..59
    /\ TwoDigits(created, 18) \in 0..59

\* An annotation map restricted to the key org.opencontainers.image.created:
\* the empty set when the key is absent, else the set holding its value.
NoManifest ==
    [present |-> FALSE, annotations |-> {}, configAnnotations |-> {}, layers |-> <<>>]

\* store.Add(ctx, filepath.Base(file), oci.LayerMediaType, file)
LayerDescriptor(file) == [title |-> Base(file), content |-> file]

\* oras.PackManifest(ctx, store, PackManifestVersion1_1, ArtifactType,
\* PackManifestOptions{Layers: layers}): no config descriptor and no manifest
\* annotations are passed, so the config is the empty descriptor and the
\* creation time is stamped on the manifest's own annotations.
PackManifest(layers) ==
    [present |-> TRUE, annotations |-> {TS_ok}, configAnnotations |-> {}, layers |-> layers]

\* What the registry may hold under the reference when inspect runs.
RemoteManifests ==
    { NoManifest,
      PackManifest(<<LayerDescriptor(P_x)>>),
      PackManifest(<<>>),
      [present |-> TRUE, annotations |-> {}, configAnnotations |-> {TS_ok},
       layers |-> <<LayerDescriptor(P_da)>>],
      [present |-> TRUE, annotations |-> {}, configAnnotations |-> {TS_dateonly},
       layers |-> <<LayerDescriptor(P_x)>>],
      [present |-> TRUE, annotations |-> {}, configAnnotations |-> {TS_month13},
       layers |-> <<>>],
      [present |-> TRUE, annotations |-> {}, configAnnotations |-> {},
       layers |-> <<LayerDescriptor(P_x), LayerDescriptor(P_ntxt)>>] }

\* The Created lines of the inspect report.
CreatedLines(manifest) ==
    IF \E created \in manifest.configAnnotations : ParsesRFC3339(created)
    THEN <<[kind |-> "Created", text |-> CHOOSE created \in manifest.configAnnotations :
                                            ParsesRFC3339(created), n |-> 0]>>
    ELSE <<>>

(***************************************************************************)
(* State of one invocation of the binary                                   *)
(***************************************************************************)
VARIABLES
    command,        \* the subcommand cobra resolved
    filenames,      \* opts.Filenames
    reference,      \* opts.Reference
    pc,             \* where the process is
    argIdx,         \* index of the next -f argument of the collection loop
    allFiles,       \* allFiles
    store,          \* the file store: "none", "open", "closed"
    layers,         \* layers
    manifest,       \* the manifest packed into the store
    localTag,       \* store.Tag(ctx, manifestDesc, opts.Reference) has been done
    repo,           \* the repository handle
    copyAttempted,  \* oras.Copy has been called
    remoteBlobs,    \* layer blobs the registry holds
    remote,         \* the manifest the registry serves under the reference
    fetched,        \* the manifest inspect decoded
    err,            \* the error the command returned, "" for nil
    out,            \* lines printed through cli.Printf / cli.Println
    exitCode,       \* -1 while the process has not called os.Exit
    interruptedAt   \* pc at which an interrupt signal arrived, "" for none

vars == <<command, filenames, reference, pc, argIdx, allFiles, store, layers,
          manifest, localTag, repo, copyAttempted, remoteBlobs, remote, fetched,
          err, out, exitCode, interruptedAt>>

Line(kind, text, n) == [kind |-> kind, text |-> text, n |-> n]

Init ==
    /\ command \in {"push", "inspect", "version"}
    /\ filenames \in (IF command = "push" THEN FilenameLists ELSE {<<>>})
    /\ reference \in (IF command = "version" THEN {<<>>} ELSE References)
    /\ remote \in (IF command = "inspect" THEN RemoteManifests ELSE {NoManifest})
    /\ pc = "main"
    /\ argIdx = 1
    /\ allFiles = <<>>
    /\ store = "none"
    /\ layers = <<>>
    /\ manifest = NoManifest
    /\ localTag = FALSE
    /\ repo = NoRepo
    /\ copyAttempted = FALSE
    /\ remoteBlobs = {}
    /\ fetched = NoManifest
    /\ err = ""
    /\ out = <<>>
    /\ exitCode = -1
    /\ interruptedAt = ""

\* RunPush without the deferred Close.
DeferredCloseMissing(s) == s

\* defer store.Close(): runs when RunPush returns once the store exists.
DeferredClose(s) == IF s = "open" THEN "closed" ELSE s

\* A return of RunPush / RunInspect / the version command with error e.
Return(e) ==
    /\ pc' = "returned"
    /\ err' = e
    /\ store' = DeferredClose(store)

\* The staging loop leaving one file early.
StagingDoneOffByOne == Len(layers) >= Len(allFiles) - 1

\* The loop over allFiles has staged every file.
StagingDone == Len(layers) = Len(allFiles)

\* The empty-list check skipped.
NoInputFilesUnchecked == FALSE

\* if len(allFiles) == 0
NoInputFiles == Len(allFiles) = 0

\* rootCmd.Execute() resolves the subcommand and calls its RunE.
Dispatch ==
    /\ pc = "main"
    /\ pc' = CASE command = "push" -> "push"
               [] command = "inspect" -> "setup"
               [] OTHER -> "version"
    /\ UNCHANGED <<command, filenames, reference, argIdx, allFiles, store, layers,
                   manifest, localTag, repo, copyAttempted, remoteBlobs, remote,
                   fetched, err, out, exitCode, interruptedAt>>

(***************************************************************************)
(* RunPush                                                                 *)
(***************************************************************************)
PushCheckFilenames ==
    /\ pc = "push"
    /\ IF Len(filenames) = 0
       THEN Return("no files specified")
       ELSE pc' = "collect" /\ UNCHANGED <<err, store>>
    /\ UNCHANGED <<command, filenames, reference, argIdx, allFiles, layers,
                   manifest, localTag, repo, copyAttempted, remoteBlobs, remote,
                   fetched, out, exitCode, interruptedAt>>

PushStatFail ==
    /\ pc = "collect"
    /\ argIdx <= Len(filenames)
    /\ ~StatExists(filenames[argIdx])
    /\ Return("failed to access")
    /\ UNCHANGED <<command, filenames, reference, argIdx, allFiles, layers,
                   manifest, localTag, repo, copyAttempted, remoteBlobs, remote,
                   fetched, out, exitCode, interruptedAt>>

PushWalkFail ==
    /\ pc = "collect"
    /\ argIdx <= Len(filenames)
    /\ StatExists(filenames[argIdx])
    /\ IsDir(filenames[argIdx])
    /\ Return("failed to walk directory")
    /\ UNCHANGED <<command, filenames, reference, argIdx, allFiles, layers,
                   manifest, localTag, repo, copyAttempted, remoteBlobs, remote,
                   fetched, out, exitCode, interruptedAt>>

PushCollectArg ==
    /\ pc = "collect"
    /\ argIdx <= Len(filenames)
    /\ StatExists(filenames[argIdx])
    /\ allFiles' = allFiles \o CollectFiltered(filenames[argIdx])
    /\ argIdx' = argIdx + 1
    /\ UNCHANGED <<command, filenames, reference, pc, store, layers, manifest,
                   localTag, repo, copyAttempted, remoteBlobs, remote, fetched,
                   err, out, exitCode, interruptedAt>>

PushNoInputFiles ==
    /\ pc = "collect"
    /\ argIdx > Len(filenames)
    /\ NoInputFiles
    /\ Return("no YAML files found")
    /\ UNCHANGED <<command, filenames, reference, argIdx, allFiles, layers,
                   manifest, localTag, repo, copyAttempted, remoteBlobs, remote,
                   fetched, out, exitCode, interruptedAt>>

PushCreateStore ==
    /\ pc = "collect"
    /\ argIdx > Len(filenames)
    /\ ~NoInputFiles
    /\ \/ store' = "open" /\ pc' = "add" /\ UNCHANGED err
       \/ Return("failed to create file store")
    /\ UNCHANGED <<command, filenames, reference, argIdx, allFiles, layers,
                   manifest, localTag, repo, copyAttempted, remoteBlobs, remote,
                   fetched, out, exitCode, interruptedAt>>

\* store.Add refuses a name the store already holds.
NameStaged(name) == \E i \in 1..Len(layers) : layers[i].title = name

PushAddFile ==
    /\ pc = "add"
    /\ ~StagingDone
    /\ LET file == allFiles[Len(layers) + 1] IN
          /\ ~NameStaged(Base(file))
          /\ layers' = Append(layers, LayerDescriptor(file))
    /\ UNCHANGED <<command, filenames, reference, pc, argIdx, allFiles, store,
                   manifest, localTag, repo, copyAttempted, remoteBlobs, remote,
                   fetched, err, out, exitCode, interruptedAt>>

\* store.Add fails: an unreadable file, or a duplicate name.
PushAddFail ==
    /\ pc = "add"
    /\ ~StagingDone
    /\ Return("failed to add to store")
    /\ UNCHANGED <<command, filenames, reference, argIdx, allFiles, layers,
                   manifest, localTag, repo, copyAttempted, remoteBlobs, remote,
                   fetched, out, exitCode, interruptedAt>>

PushPack ==
    /\ pc = "add"
    /\ StagingDone
    /\ \/ manifest' = PackManifest(layers) /\ pc' = "tag" /\ UNCHANGED <<err, store>>
       \/ Return("failed to pack manifest") /\ UNCHANGED manifest
    /\ UNCHANGED <<command, filenames, reference, argIdx, allFiles, layers,
                   localTag, repo, copyAttempted, remoteBlobs, remote, fetched,
                   out, exitCode, interruptedAt>>

PushTag ==
    /\ pc = "tag"
    /\ \/ localTag' = TRUE /\ pc' = "setup" /\ UNCHANGED <<err, store>>
       \/ Return("failed to tag manifest") /\ UNCHANGED localTag
    /\ UNCHANGED <<command, filenames, reference, argIdx, allFiles, layers,
                   manifest, repo, copyAttempted, remoteBlobs, remote, fetched,
                   out, exitCode, interruptedAt>>

(***************************************************************************)
(* oci.SetupRepository, as called by RunPush and RunInspect                *)
(***************************************************************************)
SetupInvalidReference ==
    /\ pc = "setup"
    /\ ~ReferenceValid(reference)
    /\ Return("invalid reference")
    /\ UNCHANGED <<command, filenames, reference, argIdx, allFiles, layers,
                   manifest, localTag, repo, copyAttempted, remoteBlobs, remote,
                   fetched, out, exitCode, interruptedAt>>

SetupCredentialStoreFail ==
    /\ pc = "setup"
    /\ ReferenceValid(reference)
    /\ Return("failed to create credential store")
    /\ UNCHANGED <<command, filenames, reference, argIdx, allFiles, layers,
                   manifest, localTag, repo, copyAttempted, remoteBlobs, remote,
                   fetched, out, exitCode, interruptedAt>>

SetupOk ==
    /\ pc = "setup"
    /\ ReferenceValid(reference)
    /\ repo' = SetupRepository(reference)
    /\ pc' = IF command = "push" THEN "copy" ELSE "fetch"
    /\ UNCHANGED <<command, filenames, reference, argIdx, allFiles, store, layers,
                   manifest, localTag, copyAttempted, remoteBlobs, remote, fetched,
                   err, out, exitCode, interruptedAt>>

(***************************************************************************)
(* oras.Copy from the file store to the registry: the layer blobs first,   *)
(* then the manifest under the reference                                   *)
(***************************************************************************)
PushCopyLayers ==
    /\ pc = "copy"
    /\ copyAttempted' = TRUE
    /\ remoteBlobs' = SeqRange(manifest.layers)
    /\ pc' = "copymanifest"
    /\ UNCHANGED <<command, filenames, reference, argIdx, allFiles, store, layers,
                   manifest, localTag, repo, remote, fetched, err, out, exitCode,
                   interruptedAt>>

PushCopyFail ==
    /\ pc \in {"copy", "copymanifest"}
    /\ copyAttempted' = TRUE
    /\ Return("failed to push artifact")
    /\ UNCHANGED <<command, filenames, reference, argIdx, allFiles, layers,
                   manifest, localTag, repo, remoteBlobs, remote, fetched, out,
                   exitCode, interruptedAt>>

PushCopyManifest ==
    /\ pc = "copymanifest"
    /\ remote' = manifest
    /\ out' = out \o <<Line("Summary", reference, Len(allFiles)),
                       Line("Digest", <<>>, Len(manifest.layers))>>
    /\ Return("")
    /\ UNCHANGED <<command, filenames, reference, argIdx, allFiles, layers,
                   manifest, localTag, repo, copyAttempted, remoteBlobs, fetched,
                   exitCode, interruptedAt>>

(***************************************************************************)
(* RunInspect                                                              *)
(***************************************************************************)
InspectFetchFail ==
    /\ pc = "fetch"
    /\ Return("failed to fetch manifest")
    /\ UNCHANGED <<command, filenames, reference, argIdx, allFiles, layers,
                   manifest, localTag, repo, copyAttempted, remoteBlobs, remote,
                   fetched, out, exitCode, interruptedAt>>

InspectFetch ==
    /\ pc = "fetch"
    /\ remote.present
    /\ fetched' = remote
    /\ pc' = "decode"
    /\ UNCHANGED <<command, filenames, reference, argIdx, allFiles, store, layers,
                   manifest, localTag, repo, copyAttempted, remoteBlobs, remote,
                   err, out, exitCode, interruptedAt>>

InspectDecodeFail ==
    /\ pc = "decode"
    /\ \/ Return("failed to read manifest")
       \/ Return("failed to parse manifest")
    /\ UNCHANGED <<command, filenames, reference, argIdx, allFiles, layers,
                   manifest, localTag, repo, copyAttempted, remoteBlobs, remote,
                   fetched, out, exitCode, interruptedAt>>

\* The rows of the layer table: the title annotation and the digest.
RECURSIVE LayerLines(_)
LayerLines(ls) ==
    IF ls = <<>> THEN <<>>
    ELSE <<Line("Layer", Head(ls).title, 0)>> \o LayerLines(Tail(ls))

\* Everything RunInspect prints for a decoded manifest.
InspectReport(m) ==
    <<Line("Artifact", SubSeq(reference, Len(repo.host) + 2, Len(reference)), 0),
      Line("Registry", repo.host, 0),
      Line("Digest", <<>>, Len(m.layers))>>
    \o CreatedLines(m)
    \o (IF Len(m.layers) = 0
        THEN <<Line("NoRGDs", <<>>, 0)>>
        ELSE <<Line("Header", <<>>, 0)>> \o LayerLines(m.layers))

InspectRender ==
    /\ pc = "decode"
    /\ out' = out \o InspectReport(fetched)
    /\ Return("")
    /\ UNCHANGED <<command, filenames, reference, argIdx, allFiles, layers,
                   manifest, localTag, repo, copyAttempted, remoteBlobs, remote,
                   fetched, exitCode, interruptedAt>>

(***************************************************************************)
(* The version command and the process entry point                         *)
(***************************************************************************)
RunVersion ==
    /\ pc = "version"
    /\ out' = Append(out, Line("Version", <<>>, 0))
    /\ Return("")
    /\ UNCHANGED <<command, filenames, reference, argIdx, allFiles, layers,
                   manifest, localTag, repo, copyAttempted, remoteBlobs, remote,
                   fetched, exitCode, interruptedAt>>

\* Execute leaving with os.Exit(0) on every path.
ExitCodeAlwaysZero(e) == 0

\* if err := rootCmd.Execute(); err != nil { cli.Println(err.Error()); os.Exit(1) }
\* os.Exit(0)
ExitCodeFor(e) == IF e # "" THEN 1 ELSE 0

ExecuteExit ==
    /\ pc = "returned"
    /\ out' = IF err # "" THEN Append(out, Line("Error", <<err>>, 0)) ELSE out
    /\ exitCode' = ExitCodeFor(err)
    /\ pc' = "exited"
    /\ UNCHANGED <<command, filenames, reference, argIdx, allFiles, store, layers,
                   manifest, localTag, repo, copyAttempted, remoteBlobs, remote,
                   fetched, err, interruptedAt>>

\* An interrupt signal.  Execute installs no signal handler and runs the
\* command with rootCmd.Execute(), so cmd.Context() is never cancelled: the
\* Go runtime's default disposition ends the process where it stands.
Interrupt ==
    /\ pc \notin {"exited", "killed"}
    /\ interruptedAt' = pc
    /\ pc' = "killed"
    /\ UNCHANGED <<command, filenames, reference, argIdx, allFiles, store, layers,
                   manifest, localTag, repo, copyAttempted, remoteBlobs, remote,
                   fetched, err, out, exitCode>>

Next ==
    \/ Dispatch
    \/ PushCheckFilenames \/ PushStatFail \/ PushWalkFail \/ PushCollectArg
    \/ PushNoInputFiles \/ PushCreateStore
    \/ PushAddFile \/ PushAddFail \/ PushPack \/ PushTag
    \/ SetupInvalidReference \/ SetupCredentialStoreFail \/ SetupOk
    \/ PushCopyLayers \/ PushCopyFail \/ PushCopyManifest
    \/ InspectFetchFail \/ InspectFetch \/ InspectDecodeFail \/ InspectRender
    \/ RunVersion
    \/ ExecuteExit
    \/ Interrupt

Spec == Init /\ [][Next]_vars

(***************************************************************************)
(* Properties                                                              *)
(***************************************************************************)

\* RunPush has processed every -f argument.
Collected == command = "push" /\ pc # "main" /\ pc # "push" /\ argIdx > Len(filenames)

HasLine(kind) == \E i \in 1..Len(out) : out[i].kind = kind

\* s ends with suffix.
HasSuffix(s, suffix) ==
    /\ Len(s) >= Len(suffix)
    /\ SubSeq(s, Len(s) - Len(suffix) + 1, Len(s)) = suffix

IsYamlName(path) == HasSuffix(path, YamlExt) \/ HasSuffix(path, YmlExt)

\* The regular files at any depth below dir.
FilesUnder(dir) == {f \in FsFiles : HasPrefix(f, dir \o <<"/">>)}

\* How many entries one -f argument is to contribute.
Contribution(filename) ==
    IF filename \in FsDirs
    THEN Cardinality({f \in FilesUnder(filename) : IsYamlName(f)})
    ELSE 1

\* Entries contributed by the arguments before the i-th.
RECURSIVE Offset(_)
Offset(i) == IF i <= 1 THEN 0 ELSE Offset(i - 1) + Contribution(filenames[i - 1])

\* C1: the manifest is packed, tagged and copied only after every collected
\* file has been staged, in that order; when staging a file fails push
\* returns an error and nothing is packed, tagged or pushed.
C1_PublishAfterStaging ==
    /\ (manifest.present \/ localTag \/ copyAttempted) =>
          /\ Collected
          /\ Len(layers) = Len(allFiles)
          /\ \A i \in 1..Len(allFiles) : layers[i] = LayerDescriptor(allFiles[i])
          /\ manifest.layers = layers
    /\ localTag => manifest.present
    /\ copyAttempted => localTag
    /\ remote.present /\ command = "push" => copyAttempted
    /\ err = "failed to add to store" =>
          /\ ~manifest.present /\ ~localTag /\ ~copyAttempted
          /\ remoteBlobs = {} /\ ~remote.present
          /\ pc = "exited" => exitCode = 1

C1_Witness ==
    /\ pc = "exited"
    /\ err = "failed to add to store"
    /\ Len(layers) = 1
    /\ Len(allFiles) = 3

\* C2: no file path occurs more than once in the collected list.
C2_Deduplicated ==
    Collected =>
        \A i, j \in 1..Len(allFiles) : i # j => allFiles[i] # allFiles[j]

\* C3: an interrupt arriving while a network call of push or inspect is in
\* flight ends the command with a reported cancellation error, and the
\* registry's tag never points at a manifest whose layers it lacks.
C3_CancellationReported ==
    /\ (interruptedAt \in {"copy", "copymanifest", "fetch"} /\ pc \in {"killed", "exited"}) =>
          /\ err # ""
          /\ HasLine("Error")
          /\ exitCode = 1
    /\ (command = "push" /\ remote.present) => SeqRange(remote.layers) \subseteq remoteBlobs

\* The host is name:port for one of the loopback names.
LoopbackNames == { <<"l","o","c","a","l","h","o","s","t">>,
                   <<"1","2","7",".","0",".","0",".","1">>,
                   <<":",":","1">> }

MatchesLoopbackPattern(host) ==
    \E name \in LoopbackNames :
        /\ Len(host) >= Len(name) + 2
        /\ SubSeq(host, 1, Len(name)) = name
        /\ host[Len(name) + 1] = ":"
        /\ \A i \in (Len(name) + 2)..Len(host) : host[i] \in Digits

C5_NoInputFilesFirst ==
    /\ (Collected /\ Len(filenames) > 0 /\ Len(allFiles) = 0) =>
          /\ \A i \in 1..Len(filenames) : StatExists(filenames[i])
          /\ pc \in {"collect", "returned", "exited", "killed"}
          /\ store = "none" /\ ~repo.set /\ ~copyAttempted /\ ~remote.present
          /\ pc \in {"returned", "exited"} => err = "no YAML files found"
          /\ pc = "exited" => exitCode = 1
    /\ err = "no YAML files found" => (Collected /\ Len(allFiles) = 0 /\ store = "none")

C5_Witness ==
    /\ pc = "exited"
    /\ filenames = <<P_e, P_e>>
    /\ err = "no YAML files found"

\* C6: a directory argument contributes exactly the .yaml/.yml regular files
\* below it, each once, and nothing else.
C6_DirectoryContribution ==
    Collected =>
        /\ Len(allFiles) = Offset(Len(filenames) + 1)
        /\ \A i \in 1..Len(filenames) :
              IsDir(filenames[i]) =>
                  LET slice == {allFiles[j] :
                                  j \in (Offset(i) + 1)..(Offset(i) + Contribution(filenames[i]))}
                  IN  /\ slice = {f \in FilesUnder(filenames[i]) : IsYamlName(f)}
                      /\ slice \cap FsDirs = {}

C6_Witness ==
    /\ pc = "add"
    /\ filenames = <<P_x, P_d>>
    /\ Len(allFiles) = 4

\* C7: an argument naming an existing file stands in the collected list as
\* given, whatever its extension, at the place its argument position gives it.
C7_NamedFilesVerbatim ==
    Collected =>
        \A i \in 1..Len(filenames) :
            ~IsDir(filenames[i]) =>
                /\ Offset(i) + 1 <= Len(allFiles)
                /\ allFiles[Offset(i) + 1] = filenames[i]

C7_Witness ==
    /\ pc = "add"
    /\ filenames = <<P_d, P_ntxt>>
    /\ allFiles[4] = P_ntxt

\* C8: the exit code is 0 exactly when the command returned no error; a
\* returned error is printed, the exit code is 1 and no success output was
\* printed.
C8_ExitCode ==
    /\ exitCode = 0 <=> (pc = "exited" /\ err = "")
    /\ pc = "exited" => exitCode \in {0, 1}
    /\ (pc = "exited" /\ err # "") =>
          /\ exitCode = 1
          /\ out = <<Line("Error", <<err>>, 0)>>
    /\ (pc = "exited" /\ err = "" /\ command = "push") => HasLine("Summary")
    /\ (pc = "exited" /\ err = "" /\ command = "inspect") => HasLine("Artifact")
    /\ (HasLine("Summary") \/ HasLine("Artifact")) => err = ""

C8_Witness ==
    /\ pc = "exited"
    /\ command = "push"
    /\ err = "failed to push artifact"
    /\ exitCode = 1

\* C9: once RunPush has returned, on whatever path, a store it created is
\* closed.
C9_StoreClosed ==
    /\ pc \in {"returned", "exited"} => store # "open"
    /\ (pc \in {"returned", "exited"} /\ command = "push"
          /\ err \in {"", "failed to add to store", "failed to pack manifest",
                      "failed to tag manifest", "invalid reference",
                      "failed to create credential store", "failed to push artifact"})
          => store = "closed"

C9_Witness ==
    /\ pc = "returned"
    /\ err = "failed to tag manifest"
    /\ store = "closed"

\* C10: a successful inspect prints a Created line exactly when the manifest
\* it fetched carries a well-formed creation timestamp annotation.
C10_CreatedShown ==
    (command = "inspect" /\ pc = "exited" /\ err = "") =>
        (HasLine("Created") <=>
            \E created \in fetched.annotations \cup fetched.configAnnotations :
                ParsesRFC3339(created))

====
